---------------------------- MODULE Spec2Model ----------------------------
(***************************************************************************)
(* A model of the aws-metrics command (src/command-aws-metrics.py): the    *)
(* rule matcher get_configuration, the source resolver _get_source, the    *)
(* per-page transformer _process_metrics with the WavefrontProxy context   *)
(* manager, and the run driver _execute with the persisted                 *)
(* last_run_timestamp of the configuration file.                           *)
(*                                                                         *)
(* Conventions.  Python strings are TLA+ strings.  An optional Python      *)
(* value (None or v) is the sequence <<>> or <<v>>.  A dict is a function  *)
(* (a record), and "k in d" is k \in DOMAIN d.  A dict that the code       *)
(* iterates (metrics_config) is the sequence of its items in the order     *)
(* the iteration yields them.  A JSON number in source_names is            *)
(* [num |-> n], a JSON string is [str |-> s].  A datetime is               *)
(* [ms |-> milliseconds since the epoch, us |-> microseconds below the     *)
(* millisecond].  Metric values are integers (42 stands for 42.0).  A call *)
(* that can raise returns [raised |-> exception name or "", value |-> _].  *)
(***************************************************************************)
EXTENDS Integers, Sequences, FiniteSets, TLC

VARIABLES
    config_file,    \* the JSON document at config_file_path
    now,            \* the wall clock, a datetime
    runs,           \* number of runs started so far
    args,           \* self.is_dry_run, self.has_suffix_for_single_stat, self.metric_name_prefix
    pc,             \* where the run is: idle, list, enter, metric, emit, exit, next, commit, done, failed
    metrics_config, \* self.metrics_config
    last_run_timestamp, \* self.last_run_timestamp
    window,         \* [start, end] of _execute
    upstream,       \* the responses list_metrics will give in this run, and the results get_metric_statistics may give
    response,       \* the variable response of _execute
    loc,            \* the locals of _process_metrics: the loop positions, stats, source, config
    sock,           \* wf_proxy.sock: None, unconnected, open, broken, closed
    error,          \* the exception that is propagating, or ""
    sent,           \* the records written to the socket in this run, in order
    printed,        \* the records printed in this run (dry run), in order
    hist,           \* what the run has done so far (for the properties only)
    call            \* the call of the function under check (for the specifications of one function)

vars == <<config_file, now, runs, args, pc, metrics_config, last_run_timestamp,
          window, upstream, response, loc, sock, error, sent, printed, hist, call>>

-----------------------------------------------------------------------------
(* Bounds of the model *)

MaxRuns == 1
MaxWindowRuns == 3
MaxDatapoints == 2
MaxRules == 3
MaxDirectives == 2

-----------------------------------------------------------------------------
(* Python values *)

None == <<>>
Some(v) == <<v>>
Ok(v) == [raised |-> "", value |-> v]
Raise(e) == [raised |-> e, value |-> None]

\* str.lower() on one character
LowerChar(c) ==
    CASE c = "A" -> "a" [] c = "B" -> "b" [] c = "C" -> "c" [] c = "D" -> "d"
      [] c = "E" -> "e" [] c = "F" -> "f" [] c = "G" -> "g" [] c = "H" -> "h"
      [] c = "I" -> "i" [] c = "J" -> "j" [] c = "K" -> "k" [] c = "L" -> "l"
      [] c = "M" -> "m" [] c = "N" -> "n" [] c = "O" -> "o" [] c = "P" -> "p"
      [] c = "Q" -> "q" [] c = "R" -> "r" [] c = "S" -> "s" [] c = "T" -> "t"
      [] c = "U" -> "u" [] c = "V" -> "v" [] c = "W" -> "w" [] c = "X" -> "x"
      [] c = "Y" -> "y" [] c = "Z" -> "z" [] OTHER -> c

\* str.lower()
RECURSIVE lower(_)
lower(s) == IF s = "" THEN "" ELSE LowerChar(Head(s)) \o lower(Tail(s))

\* str.replace(old, new) for a one-character old
RECURSIVE replace(_, _, _)
replace(s, old, new) ==
    IF s = "" THEN ""
    ELSE (IF Head(s) = old THEN new ELSE Head(s)) \o replace(Tail(s), old, new)

\* re.match(pattern, string, re.IGNORECASE) is not None, for patterns made of
\* literal characters, escaped characters (\c), the wildcard . and the
\* quantifier * after any of them.  The match is anchored at the start of
\* the string and need not consume it.
RECURSIVE re_match(_, _)
re_match(pattern, string) ==
    IF pattern = "" THEN TRUE
    ELSE LET escaped == Head(pattern) = "\\" /\ Len(pattern) >= 2
             alen    == IF escaped THEN 2 ELSE 1
             lit     == SubSeq(pattern, alen, alen)
             rest    == SubSeq(pattern, alen + 1, Len(pattern))
             starred == rest # "" /\ Head(rest) = "*"
             AtomMatches(c) ==
                 IF ~escaped /\ lit = "." THEN TRUE
                 ELSE LowerChar(c) = LowerChar(lit)
         IN  IF starred
             THEN \/ re_match(Tail(rest), string)
                  \/ /\ string # ""
                     /\ AtomMatches(Head(string))
                     /\ re_match(pattern, Tail(string))
             ELSE /\ string # ""
                  /\ AtomMatches(Head(string))
                  /\ re_match(rest, Tail(string))

-----------------------------------------------------------------------------
(* Module-level tables *)

\* the default list with the literal moved before the Namespace tag
default_source_names_literal_first ==
    << [str |-> "Service"], [str |-> "AvailabilityZone"], [num |-> 0],
       [str |-> "=AWS"], [str |-> "Namespace"] >>

default_source_names ==
    << [str |-> "Service"], [str |-> "AvailabilityZone"], [num |-> 0],
       [str |-> "Namespace"], [str |-> "=AWS"] >>

stat_short_name(s) ==
    CASE s = "Average" -> "avg"
      [] s = "Minimum" -> "min"
      [] s = "Maximum" -> "max"
      [] s = "Sum" -> "sum"
      [] s = "SampleCount" -> "count"

-----------------------------------------------------------------------------
(* get_configuration *)

\* m = namespace.replace('/', '.').lower() + '.' + metric_name.lower()
composite_key(namespace, metric_name) ==
    lower(replace(namespace, "/", ".")) \o "." \o lower(metric_name)

\* the test that lets a later matching rule c replace current_match; reading
\* c['priority'] of a rule without that key raises KeyError
ReplaceTest(current_match, c) ==
    IF current_match = None THEN Ok(TRUE)
    ELSE IF "priority" \notin DOMAIN current_match[1] THEN Ok(FALSE)
    ELSE IF "priority" \notin DOMAIN c THEN Raise("KeyError")
    ELSE Ok(current_match[1].priority < c.priority)

\* the loop over self.metrics_config.iteritems(), from item i on
RECURSIVE config_scan(_, _, _, _)
config_scan(items, i, m, current_match) ==
    IF i > Len(items) THEN Ok(current_match)
    ELSE IF ~re_match(items[i].n, m) THEN config_scan(items, i + 1, m, current_match)
    ELSE LET t == ReplaceTest(current_match, items[i].c)
         IN  IF t.raised # "" THEN Raise(t.raised)
             ELSE config_scan(items, i + 1, m,
                              IF t.value THEN Some(items[i].c) ELSE current_match)

get_configuration(items, namespace, metric_name) ==
    config_scan(items, 1, composite_key(namespace, metric_name), None)

-----------------------------------------------------------------------------
(* _get_source *)

\* dimensions[n] of a Python list: valid for -len <= n < len
ListIndex(list, n) ==
    IF 0 <= n /\ n < Len(list) THEN Ok(list[n + 1])
    ELSE IF n < 0 /\ -n <= Len(list) THEN Ok(list[Len(list) + n + 1])
    ELSE Raise("IndexError")

\* the test that guards dimensions[n]
DimensionCheck(dimensions, n) == Len(dimensions) < n

\* the loop over source_names, from directive i on
RECURSIVE source_scan(_, _, _, _)
source_scan(source_names, i, point_tags, dimensions) ==
    IF i > Len(source_names) THEN Ok(None)
    ELSE LET n == source_names[i]
         IN  IF "num" \in DOMAIN n
             THEN IF DimensionCheck(dimensions, n.num)
                  THEN LET r == ListIndex(dimensions, n.num)
                       IN  IF r.raised # "" THEN r ELSE Ok(Some(r.value))
                  ELSE source_scan(source_names, i + 1, point_tags, dimensions)
             ELSE IF n.str # "" /\ Head(n.str) = "="
                  THEN Ok(Some(Tail(n.str)))
                  ELSE IF n.str \in DOMAIN point_tags
                       THEN Ok(Some(point_tags[n.str]))
                       ELSE source_scan(source_names, i + 1, point_tags, dimensions)

_get_source(config, point_tags, dimensions) ==
    source_scan(IF "source_names" \in DOMAIN config
                THEN config.source_names ELSE default_source_names,
                1, point_tags, dimensions)

\* "if not source" of _process_metrics: None and '' are false
Falsy(source) == source = None \/ source[1] = ""

-----------------------------------------------------------------------------
(* Time: datetime, timedelta and command.unix_time_millis *)

default_delay_minutes == 5
ClampSeconds == 86400
ClampDays == 1
Period == 60

\* datetime.datetime.utcfromtimestamp(ts)
utcfromtimestamp(ts) == [ms |-> ts * 1000, us |-> 0]

\* dt - datetime.timedelta(milliseconds = ms)
minus_ms(dt, ms) == [ms |-> dt.ms - ms, us |-> dt.us]

\* dt + a delay [ms, us], carrying the microseconds
plus(dt, d) ==
    [ms |-> dt.ms + d.ms + ((dt.us + d.us) \div 1000), us |-> (dt.us + d.us) % 1000]

\* (a - b).total_seconds() > secs
total_seconds_gt(a, b, secs) ==
    \/ a.ms - b.ms > secs * 1000
    \/ a.ms - b.ms = secs * 1000 /\ a.us > b.us

\* command.unix_time_millis(dt), for dt at or after the epoch:
\* long((dt - epoch).total_seconds() * 1000) drops what is below the millisecond
unix_time_millis(dt) == dt.ms

\* the start of the window without the clamp to one day
window_start_unclamped(end, lrt) ==
    IF lrt # None /\ lrt[1] # 0
    THEN utcfromtimestamp(lrt[1])
    ELSE minus_ms(end, default_delay_minutes * 60000)

\* the start of the window, lines 332-337
window_start(end, lrt) ==
    IF lrt # None /\ lrt[1] # 0
    THEN LET start == utcfromtimestamp(lrt[1])
         IN  IF total_seconds_gt(end, start, ClampSeconds)
             THEN minus_ms(end, ClampDays * 86400000)
             ELSE start
    ELSE minus_ms(end, default_delay_minutes * 60000)

\* config['last_run_timestamp'] = command.unix_time_millis(end) / 1000
new_last_run_timestamp(end) == unix_time_millis(end) \div 1000

-----------------------------------------------------------------------------
(* _process_metrics: the values it computes *)

metric_name_of(m) ==
    replace(lower(m.Namespace), "/", ".") \o "." \o lower(m.MetricName)

RECURSIVE add_dimensions(_, _, _)
add_dimensions(tags, dims, i) ==
    IF i > Len(dims) THEN tags
    ELSE add_dimensions((dims[i].Name :> dims[i].Value) @@ tags, dims, i + 1)

point_tags_of(m) == add_dimensions("Namespace" :> m.Namespace, m.Dimensions, 1)

\* the suffix test with the flag read the other way round
full_metric_name_flag_inverted(metric_name, number_of_stats, has_suffix_for_single_stat, short_name) ==
    IF number_of_stats = 1 /\ ~has_suffix_for_single_stat
    THEN metric_name
    ELSE metric_name \o "." \o short_name

\* lines 294-297
full_metric_name(metric_name, number_of_stats, has_suffix_for_single_stat, short_name) ==
    IF number_of_stats = 1 /\ has_suffix_for_single_stat
    THEN metric_name
    ELSE metric_name \o "." \o short_name

\* the arguments of wf_proxy.transmit_metric for datapoint stat and statistic s
transmit_args(prefix, has_suffix, m, config, source, stat, s) ==
    [ name       |-> prefix \o full_metric_name(metric_name_of(m), Len(config.stats),
                                                has_suffix, stat_short_name(s)),
      value      |-> stat[s],
      ts         |-> unix_time_millis(stat["Timestamp"]),
      source     |-> source,
      point_tags |-> point_tags_of(m) ]

\* the two loops nested the other way round
next_position_stats_outer(j, k, ndatapoints, nstats) ==
    IF j < ndatapoints THEN <<j + 1, k>>
    ELSE IF k < nstats THEN <<1, k + 1>>
    ELSE <<>>

\* the position after (j, k) in "for stat in stats['Datapoints']: for s in
\* config['stats']", or <<>> when the loops are over
next_position(j, k, ndatapoints, nstats) ==
    IF k < nstats THEN <<j, k + 1>>
    ELSE IF j < ndatapoints THEN <<j + 1, 1>>
    ELSE <<>>

-----------------------------------------------------------------------------
(* The inputs of the model: rule sets, descriptors, listings, delays *)

M_cpu == [Namespace |-> "AWS/EC2", MetricName |-> "CPUUtilization",
          Dimensions |-> <<[Name |-> "InstanceId", Value |-> "i-1"]>>]
M_elb == [Namespace |-> "AWS/ELB", MetricName |-> "RequestCount",
          Dimensions |-> <<[Name |-> "LoadBalancerName", Value |-> "lb1"],
                           [Name |-> "AvailabilityZone", Value |-> "us-east-1a"]>>]
M_s3  == [Namespace |-> "AWS/S3", MetricName |-> "BucketSizeBytes", Dimensions |-> <<>>]
M_rds == [Namespace |-> "AWS/RDS", MetricName |-> "CPUUtilization",
          Dimensions |-> <<[Name |-> "Service", Value |-> "db"]>>]

R_ec2_avg  == [stats |-> <<"Average">>, priority |-> 1]
R_ec2_two  == [stats |-> <<"Average", "Maximum">>]
R_elb      == [stats |-> <<"Sum", "Maximum">>,
               source_names |-> <<[str |-> "LoadBalancerName"], [str |-> "=ELB"]>>]
R_elb_idx  == [stats |-> <<"SampleCount">>,
               source_names |-> <<[num |-> 3], [str |-> "=ELB"]>>]
R_s3_none  == [stats |-> <<>>]
R_s3_nosrc == [stats |-> <<"Average">>, source_names |-> <<[str |-> "Service"]>>]
R_all_min  == [stats |-> <<"Minimum">>, priority |-> 1]

CfgA == << [n |-> "aws\\.ec2\\..*", c |-> R_ec2_avg],
           [n |-> "aws\\.elb\\..*", c |-> R_elb],
           [n |-> "aws\\.s3\\..*",  c |-> R_s3_none] >>
CfgB == << [n |-> "aws\\.ec2\\.cpu.*", c |-> R_ec2_two],
           [n |-> "aws\\.s3\\..*",     c |-> R_s3_nosrc],
           [n |-> "aws\\.elb\\..*",    c |-> R_elb_idx] >>
CfgC == << [n |-> "AWS\\..*",       c |-> R_all_min],
           [n |-> "aws\\.ec2\\..*", c |-> R_ec2_two] >>
Configs == {CfgA, CfgB, CfgC}

L_one   == << [Metrics |-> <<M_cpu>>] >>
L_three == << [Metrics |-> <<M_cpu, M_s3>>, NextToken |-> 2],
              [Metrics |-> <<M_rds, M_elb, M_cpu>>, NextToken |-> 3],
              [Metrics |-> <<M_cpu>>] >>
L_two   == << [Metrics |-> <<M_elb, M_rds>>, NextToken |-> 2],
              [Metrics |-> <<M_s3, M_cpu>>] >>
L_none  == << [ResponseMetadata |-> "200"] >>
Listings == {L_two, L_three, L_none}
WindowListings == {L_one, L_none}

Prefixes == {"", "prod."}
Args == [is_dry_run : BOOLEAN, no_suffix_for_single : BOOLEAN, prefix : Prefixes]
WindowArgs == [is_dry_run : BOOLEAN, no_suffix_for_single : {FALSE}, prefix : {""}]

\* the clock at the start, three days after the epoch
T0 == [ms |-> 259200000, us |-> 0]
\* the time between two runs: 1.5 s, 5 min, 24 h, 25 h
WindowDelays == { [ms |-> 1500, us |-> 250], [ms |-> 300000, us |-> 0],
                  [ms |-> 86400000, us |-> 0], [ms |-> 90000000, us |-> 0] }
Delays == { [ms |-> 1500, us |-> 250], [ms |-> 90000000, us |-> 0] }
\* the last_run_timestamp values a configuration file may hold at the start:
\* the epoch, two minutes before T0, two days before T0
WindowWatermarks == {0, 259080, 86400}
InitWatermarks == {259080}

\* the value of Datapoints[j][s] the upstream gives
StatValue(s, j) ==
    (CASE s = "Average" -> 42 [] s = "Maximum" -> 90 [] s = "Minimum" -> 7
       [] s = "Sum" -> 300 [] s = "SampleCount" -> 5) + 10 * (j - 1)

\* the j-th datapoint of a get_metric_statistics result: one per period from StartTime
Datapoint(j, start, statistics) ==
    [x \in {"Timestamp"} \cup {statistics[k] : k \in 1..Len(statistics)} |->
        IF x = "Timestamp"
        THEN [ms |-> ((start.ms \div (Period * 1000)) + j) * (Period * 1000), us |-> 0]
        ELSE StatValue(x, j)]

\* what aws_client.get_metric_statistics may do: raise, or return 0..MaxDatapoints datapoints
get_metric_statistics(start, statistics) ==
    {Raise("ClientError")} \cup
    { Ok([Datapoints |-> [j \in 1..n |-> Datapoint(j, start, statistics)]]) :
        n \in 0..MaxDatapoints }

-----------------------------------------------------------------------------
(* The state *)

LocIdle == [i |-> 0, config |-> None, stats |-> <<>>, source |-> None, j |-> 0, k |-> 0]

HistRun(a, wm, last_ok, prev_ok) ==
    [ a         |-> a,      \* the command line of the run
      wm_before |-> wm,     \* the persisted watermark when the run started
      writes    |-> 0,      \* calls of update_last_runtime in this run
      fetched   |-> 0,      \* responses list_metrics has returned in this run
      entered   |-> 0,      \* calls of _process_metrics in this run
      opened    |-> 0,      \* connections opened in this run
      log       |-> <<>>,   \* one entry per descriptor the loop of _process_metrics has reached
      last_ok   |-> last_ok, \* the window of the last run that committed
      prev_ok   |-> prev_ok ] \* the window of the run that committed before that one

NoCall == [fn |-> "", result |-> None]

persisted(cf) ==
    IF "last_run_timestamp" \in DOMAIN cf THEN Some(cf.last_run_timestamp) ELSE None

\* no run is in progress
NoRun ==
    /\ now = T0
    /\ runs = 0
    /\ args = [is_dry_run |-> FALSE, has_suffix_for_single_stat |-> TRUE, metric_name_prefix |-> ""]
    /\ pc = "idle"
    /\ metrics_config = None
    /\ last_run_timestamp = None
    /\ window = None
    /\ upstream = <<>>
    /\ response = None
    /\ loc = LocIdle
    /\ sock = "None"
    /\ error = ""
    /\ sent = <<>>
    /\ printed = <<>>
    /\ hist = HistRun(None, None, None, None)

InitWith(configs, watermarks) ==
    /\ \E cfg \in configs :
          config_file \in {[metrics |-> cfg]} \cup
                          {[metrics |-> cfg, last_run_timestamp |-> w] : w \in watermarks}
    /\ NoRun
    /\ call = NoCall

Init == InitWith(Configs, InitWatermarks)

-----------------------------------------------------------------------------
(* _execute, up to the first list_metrics *)

\* a _parse_args that drops --dry-run
parse_args_dry_run_dropped(a) ==
    [ is_dry_run                 |-> FALSE,
      has_suffix_for_single_stat |-> a.no_suffix_for_single,
      metric_name_prefix         |-> a.prefix ]

\* _parse_args: the fields of self the run uses
parse_args(a) ==
    [ is_dry_run                 |-> a.is_dry_run,
      has_suffix_for_single_stat |-> a.no_suffix_for_single,
      metric_name_prefix         |-> a.prefix ]

\* A run starts (a new process, from the crontab): d after the previous one, with the command
\* line a, against an upstream that will list up.  _parse_args,
\* load_configuration and the window computation of _execute.
Execute(limit, d, a, up) ==
    /\ pc = "idle"
    /\ runs < limit
    /\ runs' = runs + 1
    /\ now' = plus(now, d)
    /\ args' = parse_args(a)
    /\ metrics_config' = config_file.metrics
    /\ last_run_timestamp' = persisted(config_file)
    /\ window' = [start |-> window_start(now', last_run_timestamp'), end |-> now']
    /\ upstream' = up
    /\ response' = None
    /\ loc' = LocIdle
    /\ sock' = "None"
    /\ error' = ""
    /\ sent' = <<>>
    /\ printed' = <<>>
    /\ hist' = HistRun(Some(a), persisted(config_file), hist.last_ok, hist.prev_ok)
    /\ pc' = "list"
    /\ UNCHANGED <<config_file, call>>

\* metrics_available = 'Metrics' in response
metrics_available(r) == "Metrics" \in DOMAIN r

\* response = self.aws_client.list_metrics(), line 340-341
ListMetricsFirst ==
    /\ pc = "list"
    /\ \/ /\ response' = upstream[1]
          /\ hist' = [hist EXCEPT !.fetched = @ + 1]
          /\ pc' = IF metrics_available(response') THEN "enter" ELSE "commit"
          /\ UNCHANGED error
       \/ /\ error' = "ClientError"
          /\ pc' = "failed"
          /\ UNCHANGED <<response, hist>>
    /\ UNCHANGED <<config_file, now, runs, args, metrics_config, last_run_timestamp,
                   window, upstream, loc, sock, sent, printed, call>>

-----------------------------------------------------------------------------
(* _process_metrics and the WavefrontProxy context manager *)

\* the for loop over metrics moves to metric i, or leaves the with block
LoopTo(i) ==
    IF i <= Len(response.Metrics)
    THEN pc' = "metric" /\ loc' = [LocIdle EXCEPT !.i = i]
    ELSE pc' = "exit" /\ loc' = LocIdle

\* with WavefrontProxy(...) as wf_proxy: __init__ and __enter__
Enter ==
    /\ pc = "enter"
    /\ IF args.is_dry_run
       THEN /\ sock' = "None"
            /\ hist' = [hist EXCEPT !.entered = @ + 1]
            /\ LoopTo(1)
            /\ UNCHANGED error
       ELSE \/ /\ sock' = "open"
               /\ hist' = [hist EXCEPT !.entered = @ + 1, !.opened = @ + 1]
               /\ LoopTo(1)
               /\ UNCHANGED error
            \/ /\ sock' = "unconnected"
               /\ hist' = [hist EXCEPT !.entered = @ + 1]
               /\ error' = "socket.error"
               /\ pc' = "failed"
               /\ UNCHANGED loc
    /\ UNCHANGED <<config_file, now, runs, args, metrics_config, last_run_timestamp,
                   window, upstream, response, sent, printed, call>>

\* the records that have left transmit_metric in this run
out == IF args.is_dry_run THEN printed ELSE sent

LogEntry(m, outcome, requested, raised, config, dps) ==
    [ page |-> hist.entered, i |-> loc.i, m |-> m, outcome |-> outcome,
      requested |-> requested, raised |-> raised, config |-> config, dps |-> dps,
      first |-> Len(out) + 1, complete |-> FALSE ]

\* an exception leaves the body of the with block
RaiseInBody(e, entry) ==
    /\ error' = e
    /\ pc' = "exit"
    /\ hist' = [hist EXCEPT !.log = Append(@, entry)]
    /\ UNCHANGED loc

\* "continue": the descriptor is skipped
Continue(entry) ==
    /\ hist' = [hist EXCEPT !.log = Append(@, [entry EXCEPT !.complete = TRUE])]
    /\ LoopTo(loc.i + 1)
    /\ UNCHANGED error

\* what line 286-288 does with a source that is None or '': logger is not a
\* name of the module, so logger.warning raises NameError
source_not_found(entry) == RaiseInBody("NameError", entry)

\* One iteration of "for m in metrics", lines 268-290, up to the first transmit_metric
ProcessMetric ==
    /\ pc = "metric"
    /\ LET m == response.Metrics[loc.i]
           point_tags == point_tags_of(m)
           c == get_configuration(metrics_config, m.Namespace, m.MetricName)
       IN  IF c.raised # ""
           THEN RaiseInBody(c.raised, LogEntry(m, "raised", FALSE, c.raised, None, <<>>))
           ELSE IF c.value = None
           THEN Continue(LogEntry(m, "no rule", FALSE, "", None, <<>>))
           ELSE IF Len(c.value[1].stats) = 0
           THEN Continue(LogEntry(m, "no stats", FALSE, "", c.value, <<>>))
           ELSE \E stats \in get_metric_statistics(window.start, c.value[1].stats) :
                  IF stats.raised # ""
                  THEN RaiseInBody(stats.raised,
                                   LogEntry(m, "raised", TRUE, stats.raised, c.value, <<>>))
                  ELSE LET config == c.value[1]
                           dps == stats.value.Datapoints
                           source == _get_source(config, point_tags, m.Dimensions)
                       IN  IF source.raised # ""
                           THEN RaiseInBody(source.raised,
                                    LogEntry(m, "raised", TRUE, source.raised, c.value, dps))
                           ELSE IF Falsy(source.value)
                           THEN source_not_found(
                                    LogEntry(m, "no source", TRUE, "NameError", c.value, dps))
                           ELSE IF Len(dps) = 0
                           THEN Continue(LogEntry(m, "emit", TRUE, "", c.value, dps))
                           ELSE /\ loc' = [loc EXCEPT !.config = c.value, !.stats = dps,
                                                      !.source = source.value,
                                                      !.j = 1, !.k = 1]
                                /\ hist' = [hist EXCEPT !.log =
                                       Append(@, LogEntry(m, "emit", TRUE, "", c.value, dps))]
                                /\ pc' = "emit"
                                /\ UNCHANGED error
    /\ UNCHANGED <<config_file, now, runs, args, metrics_config, last_run_timestamp,
                   window, upstream, response, sock, sent, printed, call>>


\* the last entry of the log is complete: the loops over its datapoints are over
CompleteLast(log) == [log EXCEPT ![Len(log)].complete = TRUE]

\* what a failed sendall leaves of the connection: it may still be up, or
\* the peer has reset it
AfterFailedSend == {"open", "broken"}

\* One wf_proxy.transmit_metric(...), lines 291-304 and 83-97
Transmit ==
    /\ pc = "emit"
    /\ LET m    == response.Metrics[loc.i]
           stat == loc.stats[loc.j]
           s    == loc.config[1].stats[loc.k]
           line == transmit_args(args.metric_name_prefix, args.has_suffix_for_single_stat,
                                 m, loc.config[1], loc.source[1], stat, s)
           np   == next_position(loc.j, loc.k, Len(loc.stats), Len(loc.config[1].stats))
           Sent == IF np = <<>>
                   THEN /\ hist' = [hist EXCEPT !.log = CompleteLast(@)]
                        /\ LoopTo(loc.i + 1)
                   ELSE /\ loc' = [loc EXCEPT !.j = np[1], !.k = np[2]]
                        /\ UNCHANGED <<pc, hist>>
       IN  IF args.is_dry_run
           THEN /\ printed' = Append(printed, line)
                /\ Sent
                /\ UNCHANGED <<sent, sock, error>>
           ELSE \/ /\ sent' = Append(sent, line)
                   /\ Sent
                   /\ UNCHANGED <<printed, sock, error>>
                \/ /\ sock' \in AfterFailedSend
                   /\ error' = "socket.error"
                   /\ pc' = "exit"
                   /\ UNCHANGED <<sent, printed, loc, hist>>
    /\ UNCHANGED <<config_file, now, runs, args, metrics_config, last_run_timestamp,
                   window, upstream, response, call>>

\* an __exit__ that tests the dry-run flag the other way round
proxy_exit_flag_inverted(s, is_dry_run) ==
    IF s # "None" /\ is_dry_run
    THEN IF s = "broken" THEN [raised |-> "socket.error", sock |-> s]
         ELSE [raised |-> "", sock |-> "closed"]
    ELSE [raised |-> "", sock |-> s]

\* __exit__, lines 106-109: what it does to self.sock, and what it raises.
\* shutdown of a connection the peer has reset raises socket.error, and close
\* is then not reached.
proxy_exit(s, is_dry_run) ==
    IF s # "None" /\ ~is_dry_run
    THEN IF s = "broken" THEN [raised |-> "socket.error", sock |-> s]
         ELSE [raised |-> "", sock |-> "closed"]
    ELSE [raised |-> "", sock |-> s]

\* The with block is left, by the end of the loop or by an exception
Exit ==
    /\ pc = "exit"
    /\ LET x == proxy_exit(sock, args.is_dry_run)
       IN  /\ sock' = x.sock
           /\ error' = IF x.raised # "" THEN x.raised ELSE error
           /\ pc' = IF error' # "" THEN "failed" ELSE "next"
    /\ UNCHANGED <<config_file, now, runs, args, metrics_config, last_run_timestamp,
                   window, upstream, response, loc, sent, printed, hist, call>>

-----------------------------------------------------------------------------
(* _execute: the rest of the while loop, and update_last_runtime *)

\* a loop that never follows the continuation token
has_next_token_ignored(r) == FALSE

\* 'NextToken' in response
has_next_token(r) == "NextToken" \in DOMAIN r

\* lines 344-349
NextPage ==
    /\ pc = "next"
    /\ IF has_next_token(response)
       THEN \/ /\ response' = upstream[response.NextToken]
               /\ hist' = [hist EXCEPT !.fetched = @ + 1]
               /\ pc' = IF metrics_available(response') THEN "enter" ELSE "commit"
               /\ UNCHANGED error
            \/ /\ error' = "ClientError"
               /\ pc' = "failed"
               /\ UNCHANGED <<response, hist>>
       ELSE /\ pc' = "commit"
            /\ UNCHANGED <<response, hist, error>>
    /\ UNCHANGED <<config_file, now, runs, args, metrics_config, last_run_timestamp,
                   window, upstream, loc, sock, sent, printed, call>>

\* update_last_runtime(end): the document is read, its last_run_timestamp
\* replaced, and written back
update_last_runtime(config, end) ==
    ("last_run_timestamp" :> new_last_run_timestamp(end)) @@ config

UpdateLastRuntime ==
    /\ pc = "commit"
    /\ config_file' = update_last_runtime(config_file, window.end)
    /\ hist' = [hist EXCEPT !.writes = @ + 1,
                            !.prev_ok = hist.last_ok,
                            !.last_ok = Some([start |-> window.start, end |-> window.end,
                                              committed |-> config_file'.last_run_timestamp])]
    /\ pc' = "done"
    /\ UNCHANGED <<now, runs, args, metrics_config, last_run_timestamp, window,
                   upstream, response, loc, sock, error, sent, printed, call>>

\* The process ends: main() of wavefront.py returns, or prints the exception
\* that reached it.  Nothing of the process outlives it but the file.
Finish ==
    /\ pc \in {"done", "failed"}
    /\ pc' = "idle"
    /\ metrics_config' = None
    /\ last_run_timestamp' = None
    /\ window' = None
    /\ upstream' = <<>>
    /\ response' = None
    /\ loc' = LocIdle
    /\ sock' = "None"
    /\ error' = ""
    /\ sent' = <<>>
    /\ printed' = <<>>
    /\ hist' = HistRun(None, None, hist.last_ok, hist.prev_ok)
    /\ UNCHANGED <<config_file, now, runs, args, call>>

-----------------------------------------------------------------------------
(* The specification of the runs *)

Next ==
    \/ \E d \in Delays, a \in Args, up \in Listings : Execute(MaxRuns, d, a, up)
    \/ ListMetricsFirst
    \/ Enter
    \/ ProcessMetric
    \/ Transmit
    \/ Exit
    \/ NextPage
    \/ UpdateLastRuntime
    \/ Finish

Spec == Init /\ [][Next]_vars

(* The specification of a longer sequence of runs over short listings *)

InitWindow == InitWith({CfgA}, WindowWatermarks)

NextWindow ==
    \/ \E d \in WindowDelays, a \in WindowArgs, up \in WindowListings :
          Execute(MaxWindowRuns, d, a, up)
    \/ ListMetricsFirst
    \/ Enter
    \/ ProcessMetric
    \/ Transmit
    \/ Exit
    \/ NextPage
    \/ UpdateLastRuntime
    \/ Finish

SpecWindow == InitWindow /\ [][NextWindow]_vars

-----------------------------------------------------------------------------
(* The specification of get_configuration alone: one call on a rule set, in  *)
(* an iteration order, and a descriptor's names                              *)

MatchPatterns == {"aws\\.ec2\\..*", "aws\\.ec2\\.cpu.*", "AWS\\.E.*", "aws\\.elb\\..*"}
MatchPriorities == {1, 5}

\* the statistics tell the rules of different patterns apart
PatternStats(n) ==
    CASE n = "aws\\.ec2\\..*" -> <<"Average">>
      [] n = "aws\\.ec2\\.cpu.*" -> <<"Maximum">>
      [] n = "AWS\\.E.*" -> <<"Minimum">>
      [] n = "aws\\.elb\\..*" -> <<"Sum">>

MatchItems ==
    { [n |-> n, c |-> [stats |-> PatternStats(n)]] : n \in MatchPatterns } \cup
    { [n |-> n, c |-> [stats |-> PatternStats(n), priority |-> q]] :
        n \in MatchPatterns, q \in MatchPriorities }

\* the rule sets of at most MaxRules rules (a dict: no pattern twice), in every order
RuleSets ==
    UNION { { s \in [1..k -> MatchItems] :
                \A a, b \in 1..k : a # b => s[a].n # s[b].n } : k \in 0..MaxRules }

MatchNames == { <<"AWS/EC2", "CPUUtilization">>, <<"AWS/EC2", "NetworkIn">>,
                <<"AWS/ELB", "RequestCount">>, <<"AWS/S3", "BucketSizeBytes">> }

InitMatch ==
    /\ config_file = [metrics |-> <<>>]
    /\ NoRun
    /\ \E items \in RuleSets, nm \in MatchNames :
          call = [fn |-> "get_configuration", items |-> items,
                  namespace |-> nm[1], metric_name |-> nm[2], result |-> None]

CallGetConfiguration ==
    /\ call.fn = "get_configuration"
    /\ call.result = None
    /\ call' = [call EXCEPT !.result =
                   Some(get_configuration(call.items, call.namespace, call.metric_name))]
    /\ UNCHANGED <<config_file, now, runs, args, pc, metrics_config, last_run_timestamp,
                   window, upstream, response, loc, sock, error, sent, printed, hist>>

NextMatch == CallGetConfiguration

SpecMatch == InitMatch /\ [][NextMatch]_vars

-----------------------------------------------------------------------------
(* The specification of _get_source alone: one call on a directive list and  *)
(* a descriptor                                                              *)

Directives ==
    { [str |-> "Service"], [str |-> "InstanceId"], [str |-> "AvailabilityZone"],
      [str |-> "=AWS"],
      [num |-> 0], [num |-> 1], [num |-> 2], [num |-> 3], [num |-> -1] }

DirectiveLists == UNION { [1..k -> Directives] : k \in 0..MaxDirectives }

SourceConfigs ==
    {[stats |-> <<"Average">>]} \cup
    {[stats |-> <<"Average">>, source_names |-> l] : l \in DirectiveLists}

SourceMetrics == {M_cpu, M_elb, M_s3, M_rds}

InitSource ==
    /\ config_file = [metrics |-> <<>>]
    /\ NoRun
    /\ \E config \in SourceConfigs, m \in SourceMetrics :
          call = [fn |-> "_get_source", config |-> config,
                  point_tags |-> point_tags_of(m), dimensions |-> m.Dimensions,
                  result |-> None]

CallGetSource ==
    /\ call.fn = "_get_source"
    /\ call.result = None
    /\ call' = [call EXCEPT !.result =
                   Some(_get_source(call.config, call.point_tags, call.dimensions))]
    /\ UNCHANGED <<config_file, now, runs, args, pc, metrics_config, last_run_timestamp,
                   window, upstream, response, loc, sock, error, sent, printed, hist>>

NextSource == CallGetSource

SpecSource == InitSource /\ [][NextSource]_vars

-----------------------------------------------------------------------------
(* Rule matching (C6) *)

\* the selection policy as stated: the first matching rule becomes the best;
\* a later matching rule replaces it only if the best declares a priority
\* and the later rule's priority is greater
RECURSIVE MatchPolicy(_, _, _, _)
MatchPolicy(items, i, key, best) ==
    IF i > Len(items) THEN best
    ELSE IF ~re_match(items[i].n, key) THEN MatchPolicy(items, i + 1, key, best)
    ELSE IF best = None THEN MatchPolicy(items, i + 1, key, Some(items[i].c))
    ELSE IF /\ "priority" \in DOMAIN best[1]
            /\ "priority" \in DOMAIN items[i].c
            /\ items[i].c.priority > best[1].priority
         THEN MatchPolicy(items, i + 1, key, Some(items[i].c))
         ELSE MatchPolicy(items, i + 1, key, best)

MatchCalled == call.fn = "get_configuration" /\ call.result # None

\* C6: for every rule set, with or without priorities, in every iteration
\* order, get_configuration returns without error the rule the stated policy
\* selects (None exactly when no rule matches).
C6_Claim ==
    MatchCalled =>
        /\ call.result[1].raised = ""
        /\ call.result[1].value =
               MatchPolicy(call.items, 1, composite_key(call.namespace, call.metric_name), None)

\* C6, what the code does keep: whenever get_configuration returns, it returns
\* the rule of the stated policy
C6_ReturnedValue ==
    MatchCalled /\ call.result[1].raised = "" =>
        call.result[1].value =
            MatchPolicy(call.items, 1, composite_key(call.namespace, call.metric_name), None)

-----------------------------------------------------------------------------
(* Source resolution (C5) *)

\* what one directive produces, as stated: a literal its text, a tag name the
\* tag's value when the tag is present, an index the value at that position
\* of dimensions when the count-versus-index check passes
DirectiveYield(n, point_tags, dimensions) ==
    IF "num" \in DOMAIN n
    THEN IF DimensionCheck(dimensions, n.num) /\ ListIndex(dimensions, n.num).raised = ""
         THEN Some(ListIndex(dimensions, n.num).value.Value)
         ELSE None
    ELSE IF n.str # "" /\ Head(n.str) = "=" THEN Some(Tail(n.str))
    ELSE IF n.str \in DOMAIN point_tags THEN Some(point_tags[n.str])
    ELSE None

\* the first directive, in list order, that produces a non-empty value
RECURSIVE FirstYield(_, _, _, _)
FirstYield(source_names, i, point_tags, dimensions) ==
    IF i > Len(source_names) THEN None
    ELSE LET y == DirectiveYield(source_names[i], point_tags, dimensions)
         IN  IF y # None /\ y[1] # "" THEN y
             ELSE FirstYield(source_names, i + 1, point_tags, dimensions)

SourceCalled == call.fn = "_get_source" /\ call.result # None

SourceNamesOf(config) ==
    IF "source_names" \in DOMAIN config THEN config.source_names ELSE default_source_names

\* C5: for every directive list, point tags and dimensions, _get_source
\* returns, without ever raising, the value of the first directive that
\* produces a non-empty value, and None exactly when no directive produces one.
C5_Claim ==
    SourceCalled =>
        /\ call.result[1].raised = ""
        /\ call.result[1].value =
               FirstYield(SourceNamesOf(call.config), 1, call.point_tags, call.dimensions)

\* C5, what the code does keep: whenever _get_source returns, it returns the
\* value of the first directive that produces one
C5_ReturnedValue ==
    SourceCalled /\ call.result[1].raised = "" =>
        call.result[1].value =
            FirstYield(SourceNamesOf(call.config), 1, call.point_tags, call.dimensions)

\* C5, the part that fails: a numeric directive whose check passes never
\* yields a value, it raises IndexError
C5_CheckPassesRaises ==
    SourceCalled =>
        (call.result[1].raised = "IndexError" <=>
            \E i \in 1..Len(SourceNamesOf(call.config)) :
               LET n == SourceNamesOf(call.config)[i]
               IN  /\ "num" \in DOMAIN n
                   /\ DimensionCheck(call.dimensions, n.num)
                   /\ \A h \in 1..(i - 1) :
                        DirectiveYield(SourceNamesOf(call.config)[h],
                                       call.point_tags, call.dimensions) = None)

-----------------------------------------------------------------------------
(* What a run has emitted, descriptor by descriptor *)

\* the pages the while loop of _execute has to process: the responses the
\* continuation tokens lead to, up to one without token (or without Metrics)
RECURSIVE PagesFrom(_, _)
PagesFrom(up, p) ==
    IF "Metrics" \notin DOMAIN up[p] THEN <<>>
    ELSE <<up[p]>> \o (IF "NextToken" \in DOMAIN up[p]
                       THEN PagesFrom(up, up[p].NextToken) ELSE <<>>)

InRun == pc # "idle"

\* the records of the x-th descriptor of the log are out[first .. LogEnd(x)]
LogEnd(x) == IF x < Len(hist.log) THEN hist.log[x + 1].first - 1 ELSE Len(out)
LogCount(x) == LogEnd(x) - hist.log[x].first + 1

\* the n-th record of a descriptor is for datapoint PairJ and statistic PairK
PairJ(n, nstats) == ((n - 1) \div nstats) + 1
PairK(n, nstats) == ((n - 1) % nstats) + 1

-----------------------------------------------------------------------------
(* Commit only after the whole listing (C1) *)

\* C1: in any run the persisted watermark is written at most once, and only
\* when every page of the listing has been fetched and every descriptor of
\* every page has been transformed and emitted without error; a run that
\* fails (listing, statistics, sink write, on any page) leaves the persisted
\* watermark as it was before the run.
C1_CommitOnlyOnFullSuccess ==
    InRun =>
        LET pages == PagesFrom(upstream, 1)
        IN  /\ hist.writes <= 1
            /\ hist.writes = 1 =>
                  /\ pc = "done"
                  /\ error = ""
                  /\ hist.entered = Len(pages)
                  /\ \A p \in 1..Len(pages) : \A i \in 1..Len(pages[p].Metrics) :
                        \E x \in 1..Len(hist.log) :
                           /\ hist.log[x].page = p
                           /\ hist.log[x].i = i
                           /\ hist.log[x].m = pages[p].Metrics[i]
                           /\ hist.log[x].complete
                           /\ hist.log[x].raised = ""
                  /\ \A x \in 1..Len(hist.log) : hist.log[x].complete
                  /\ persisted(config_file) = Some(window.end.ms \div 1000)
            /\ hist.writes = 0 => persisted(config_file) = hist.wm_before
            /\ pc = "failed" => hist.writes = 0
            /\ error # "" => hist.writes = 0

\* C1 witness: statistics retrieval has failed on the second of three pages,
\* and the watermark the file held before the run is still there
C1_Witness ==
    /\ pc = "failed"
    /\ error = "ClientError"
    /\ Len(PagesFrom(upstream, 1)) = 3
    /\ hist.entered = 2
    /\ hist.log # <<>>
    /\ hist.log[Len(hist.log)].requested
    /\ hist.log[Len(hist.log)].raised = "ClientError"
    /\ hist.wm_before # None
    /\ persisted(config_file) = hist.wm_before

-----------------------------------------------------------------------------
(* Emission order and fan-out (C8) *)

\* C8: the records of one descriptor with datapoints d_1..d_M and statistics
\* s_1..s_N are one per pair (d_i, s_j), in the order of i and then of j (the
\* n-th record is the one of datapoint (n-1) div N + 1 and statistic
\* (n-1) mod N + 1), and they all come before any record of the next descriptor.
C8_EmissionOrder ==
    InRun =>
        \A x \in 1..Len(hist.log) :
            LET e == hist.log[x]
            IN  IF e.outcome = "emit"
                THEN LET stats == e.config[1].stats
                         N == Len(stats)
                         M == Len(e.dps)
                     IN  /\ LogCount(x) >= 0
                         /\ LogCount(x) <= M * N
                         /\ e.complete => LogCount(x) = M * N
                         /\ \A n \in 1..LogCount(x) :
                               LET r == out[e.first + n - 1]
                                   d == e.dps[PairJ(n, N)]
                               IN  /\ r.value = d[stats[PairK(n, N)]]
                                   /\ r.ts = d["Timestamp"].ms
                                   /\ r.point_tags["Namespace"] = e.m.Namespace
                ELSE LogCount(x) = 0

\* C8 witness: a descriptor with two datapoints and two statistics has emitted
\* its four records, and the next descriptor of the page has emitted too
C8_Witness ==
    /\ InRun
    /\ \E x \in 1..(Len(hist.log) - 1) :
          /\ hist.log[x].outcome = "emit"
          /\ hist.log[x].complete
          /\ Len(hist.log[x].dps) = 2
          /\ Len(hist.log[x].config[1].stats) = 2
          /\ LogCount(x) = 4
          /\ hist.log[x + 1].page = hist.log[x].page
          /\ hist.log[x + 1].outcome = "emit"
          /\ LogCount(x + 1) >= 1

-----------------------------------------------------------------------------
(* Suffix policy (C9) *)

BaseName(m) ==
    CASE m = M_cpu -> "aws.ec2.cpuutilization"
      [] m = M_elb -> "aws.elb.requestcount"
      [] m = M_s3  -> "aws.s3.bucketsizebytes"
      [] m = M_rds -> "aws.rds.cpuutilization"

Abbreviated(s) ==
    CASE s = "Average" -> "avg" [] s = "Maximum" -> "max" [] s = "Minimum" -> "min"
      [] s = "Sum" -> "sum" [] s = "SampleCount" -> "count"

\* C9: every emitted record's name is prefix + base when the rule has exactly
\* one statistic and suffix suppression (--no-suffix-for-single) is enabled,
\* and prefix + base + "." + the abbreviated label of its statistic otherwise.
C9_SuffixPolicy ==
    InRun =>
        \A x \in 1..Len(hist.log) :
            hist.log[x].outcome = "emit" =>
                LET e == hist.log[x]
                    stats == e.config[1].stats
                IN  \A n \in 1..LogCount(x) :
                       out[e.first + n - 1].name =
                           hist.a[1].prefix \o BaseName(e.m) \o
                           (IF Len(stats) = 1 /\ hist.a[1].no_suffix_for_single
                            THEN ""
                            ELSE "." \o Abbreviated(stats[PairK(n, Len(stats))]))

\* C9 witness: with suppression enabled, one run has emitted a record of a
\* one-statistic rule under the bare name and a record of a two-statistic
\* rule under a suffixed name
C9_Witness ==
    /\ InRun
    /\ hist.a[1].no_suffix_for_single
    /\ \E a, b \in 1..Len(out) :
          /\ out[a].name = "prod.aws.ec2.cpuutilization"
          /\ out[b].name = "prod.aws.elb.requestcount.max"

-----------------------------------------------------------------------------
(* The end-to-end example (C4) *)

\* the descriptor of the example has been processed to the end, under a rule
\* with the one statistic Average and no source_names of its own, with one
\* datapoint whose Average is 42, suffix suppression enabled and no prefix
ExampleAt(x) ==
    /\ hist.log[x].m = M_cpu
    /\ hist.log[x].outcome = "emit"
    /\ hist.log[x].complete
    /\ hist.log[x].config[1].stats = <<"Average">>
    /\ "source_names" \notin DOMAIN hist.log[x].config[1]
    /\ Len(hist.log[x].dps) = 1
    /\ hist.log[x].dps[1]["Average"] = 42
    /\ hist.a[1].no_suffix_for_single
    /\ hist.a[1].prefix = ""

ExampleRecord(x, source) ==
    [ name       |-> "aws.ec2.cpuutilization",
      value      |-> 42,
      ts         |-> hist.log[x].dps[1]["Timestamp"].ms,
      source     |-> source,
      point_tags |-> [Namespace |-> "AWS/EC2", InstanceId |-> "i-1"] ]

-----------------------------------------------------------------------------
(* Skips are local (C7) *)

Skipped(e) == e.outcome \in {"no rule", "no stats", "no source"}

\* C7: a descriptor with no matching rule, with a rule without statistics, or
\* for which no directive yields a source, emits nothing and raises nothing:
\* the loop goes on to the next descriptor (so that the run can still
\* commit); in the first two cases no statistics are requested for it.
C7_Claim ==
    InRun =>
        \A x \in 1..Len(hist.log) :
            Skipped(hist.log[x]) =>
                /\ LogCount(x) = 0
                /\ hist.log[x].raised = ""
                /\ hist.log[x].complete
                /\ hist.log[x].outcome \in {"no rule", "no stats"} => ~hist.log[x].requested

\* C7, the two cases the code does keep: no rule and no statistics
C7_NoRuleNoStatsAreLocal ==
    InRun =>
        \A x \in 1..Len(hist.log) :
            hist.log[x].outcome \in {"no rule", "no stats"} =>
                /\ LogCount(x) = 0
                /\ hist.log[x].raised = ""
                /\ hist.log[x].complete
                /\ ~hist.log[x].requested

\* C7, the case that fails: a descriptor without source always ends the run
C7_NoSourceAbortsRun ==
    InRun =>
        \A x \in 1..Len(hist.log) :
            hist.log[x].outcome = "no source" =>
                /\ x = Len(hist.log)
                /\ error # ""
                /\ hist.writes = 0

-----------------------------------------------------------------------------
(* Sink connection lifetime (C10) *)

-----------------------------------------------------------------------------
(* Windows of consecutive successful runs (C2) *)

\* this run has committed, and a run before it had committed too
SecondCommit == pc = "done" /\ hist.writes = 1 /\ hist.prev_ok # None

\* a datetime is more than 24 hours after w seconds since the epoch
MoreThanADayAfter(dt, w) ==
    \/ dt.ms - w * 1000 > 86400000
    \/ dt.ms - w * 1000 = 86400000 /\ dt.us > 0

\* C2 as stated, in the least it says: the window of each successful run
\* starts at the end the previous successful run committed, whatever failed in
\* between, so that no time between the two windows is left uncovered: the
\* start is not after the end of the previous successful run's window.
C2_Claim ==
    SecondCommit =>
        \/ window.start.ms < hist.prev_ok[1].end.ms
        \/ /\ window.start.ms = hist.prev_ok[1].end.ms
           /\ window.start.us <= hist.prev_ok[1].end.us

\* C2 amended: the previous successful run committed its end cut to whole
\* seconds, and the window of the next successful run, whatever failed in
\* between, starts at that watermark when the run begins at most 24 hours
\* after it; when it begins later, the window starts 24 hours before its end
\* and the time between the watermark and that start is covered by no window.
C2_ContiguousWithinADay ==
    SecondCommit =>
        LET w == hist.prev_ok[1].committed
        IN  /\ w = hist.prev_ok[1].end.ms \div 1000
            /\ hist.wm_before = Some(w)
            /\ IF MoreThanADayAfter(window.end, w)
               THEN /\ window.start.ms = window.end.ms - 86400000
                    /\ window.start.us = window.end.us
                    /\ \/ window.start.ms > w * 1000
                       \/ window.start.ms = w * 1000 /\ window.start.us > 0
               ELSE /\ window.start.ms = w * 1000
                    /\ window.start.us = 0

\* C2 witness: two runs have committed with a failed run between them (three
\* runs in all), and the second window starts at the first one's watermark
C2_Witness ==
    /\ SecondCommit
    /\ runs = 3
    /\ now.ms - hist.prev_ok[1].end.ms < 86400000
    /\ window.start.ms = hist.prev_ok[1].committed * 1000
    /\ hist.prev_ok[1].end.us > 0

-----------------------------------------------------------------------------
(* Window computation (C3) *)

\* C3: end = now; without a persisted watermark start = now - 5 minutes; with
\* a persisted watermark w, 0 included, start = w when now - w is at most 24
\* hours and start = now - 24 hours when it is more.
C3_Claim ==
    InRun =>
        /\ window.end = now
        /\ IF hist.wm_before = None
           THEN /\ window.start.ms = now.ms - 300000
                /\ window.start.us = now.us
           ELSE IF MoreThanADayAfter(now, hist.wm_before[1])
           THEN /\ window.start.ms = now.ms - 86400000
                /\ window.start.us = now.us
           ELSE /\ window.start.ms = hist.wm_before[1] * 1000
                /\ window.start.us = 0

\* C3, what the code does keep: the same for every persisted watermark but 0
C3_NonZeroWatermark ==
    InRun /\ hist.wm_before # Some(0) =>
        /\ window.end = now
        /\ IF hist.wm_before = None
           THEN /\ window.start.ms = now.ms - 300000
                /\ window.start.us = now.us
           ELSE IF MoreThanADayAfter(now, hist.wm_before[1])
           THEN /\ window.start.ms = now.ms - 86400000
                /\ window.start.us = now.us
           ELSE /\ window.start.ms = hist.wm_before[1] * 1000
                /\ window.start.us = 0

\* C3, the case that fails: a persisted watermark of 0 is taken for none
C3_ZeroTakenForNone ==
    InRun /\ hist.wm_before = Some(0) =>
        /\ window.start.ms = now.ms - 300000
        /\ window.start.us = now.us

-----------------------------------------------------------------------------
(* A dry run and the run after it (C11) *)

\* the run in progress was started with --dry-run
DryRun == InRun /\ hist.a # None /\ hist.a[1].is_dry_run

\* what a run started with --dry-run does: it opens no connection, sends
\* nothing to the proxy, and when it has completed without error the file
\* holds its end, cut to whole seconds, as last_run_timestamp
DryRunCommits ==
    DryRun =>
        /\ hist.opened = 0
        /\ sock = "None"
        /\ sent = <<>>
        /\ pc = "done" =>
              /\ hist.writes = 1
              /\ error = ""
              /\ persisted(config_file) = Some(window.end.ms \div 1000)

\* no run is in progress, and the last one was a dry run that committed:
\* the clock has not moved since it took its end
DryCommitted ==
    /\ pc = "idle"
    /\ args.is_dry_run
    /\ hist.last_ok # None
    /\ hist.last_ok[1].end = now

\* the step that starts a real run right after a dry run that committed
NextRealRun == DryCommitted /\ pc' = "list" /\ ~args'.is_dry_run

\* C11 as stated: a run with the dry-run flag set opens no sink connection
\* and sends no record to the sink, yet when it completes without error the
\* persisted watermark is rewritten to its end; the window of the next (real)
\* run starts at the dry run's end (to the second, the watermark's unit).
C11_Claim ==
    /\ [] DryRunCommits
    /\ [][ NextRealRun =>
             /\ window'.start.ms = (now.ms \div 1000) * 1000
             /\ window'.start.us = 0 ]_vars

\* C11 amended: a run with the dry-run flag set opens no sink connection and
\* sends no record to the sink, yet when it completes without error the
\* persisted watermark is rewritten to its end, cut to whole seconds; the
\* window of the next (real) run starts at that watermark when the run begins
\* at most 24 hours after it, and 24 hours before its own end, later than the
\* dry run's end, when it begins after more than 24 hours; in both cases it
\* does not start before the watermark, so what the dry run's window covered
\* up to that second is not requested again and never sent to the sink.
C11_DryRunAdvancesWatermark ==
    /\ [] DryRunCommits
    /\ [][ NextRealRun =>
             LET w == now.ms \div 1000
             IN  /\ persisted(config_file) = Some(w)
                 /\ last_run_timestamp' = Some(w)
                 /\ window'.end = now'
                 /\ IF MoreThanADayAfter(now', w)
                    THEN /\ window'.start.ms = now'.ms - 86400000
                         /\ window'.start.us = now'.us
                         /\ \/ window'.start.ms > w * 1000
                            \/ window'.start.ms = w * 1000 /\ window'.start.us > 0
                    ELSE /\ window'.start.ms = w * 1000
                         /\ window'.start.us = 0 ]_vars

\* C11 witness: a dry run that followed an earlier run has completed: its
\* records were printed, none was sent, no connection was opened, and the
\* file holds its end in place of the watermark it started from
C11_Witness ==
    /\ pc = "done"
    /\ hist.a # None /\ hist.a[1].is_dry_run
    /\ runs = 2
    /\ Len(printed) > 0
    /\ sent = <<>>
    /\ hist.opened = 0
    /\ hist.wm_before # None
    /\ persisted(config_file) = Some(window.end.ms \div 1000)
    /\ persisted(config_file) # hist.wm_before

=============================================================================
